---- MODULE Spec2Model ----
(***************************************************************************)
(* A state-machine model of transferlearning.py: the training loop         *)
(* train_model and the prediction display routine visualize_model.         *)
(*                                                                         *)
(* The network, the optimizer, the scheduler, the loss criterion and the   *)
(* data loaders are library objects.  The model keeps of them what the     *)
(* two functions read and write:                                           *)
(*   - the parameters of the network are a version number: the number of   *)
(*     the optimizer step that produced them (0 for the parameters the     *)
(*     network is passed in with), so that two parameter states are equal  *)
(*     exactly when no optimizer step lies between them;                   *)
(*   - a batch is the sequence of its labels, the forward pass the         *)
(*     sequence of the predicted classes and the batch's mean loss, both   *)
(*     chosen freely;                                                      *)
(*   - floating point numbers are integers and fractions <<num, den>>;     *)
(*   - the loaders yield the samples of their partition in batches of      *)
(*     batch_size samples and a smaller last one; batch_size (4 in the     *)
(*     script) and the partition sizes are inputs of a run.                *)
(* Local variables are given their idle value once the code cannot read    *)
(* them any more before writing them.                                      *)
(***************************************************************************)
EXTENDS Integers, Sequences, FiniteSets

\* ---------------------------------------------------------------- bounds
\* num_epochs, the partition sizes, the loaders' batch size and num_images
\* range up to these
MaxEpochs == 2
MaxSize == 4
MaxBatch == 4
MaxImages == 4

\* the two classes of the data set, and the values of a batch's mean loss
Classes == {0, 1}

LossVals == {0, 1, 2}

VARIABLES
    \* inputs of the run
    num_epochs, dataset_sizes, batch_size,
    \* the network, the optimizer and the scheduler
    params, model_training, opt_steps, sched_steps,
    \* train_model
    pc, epoch, phase, remaining, labels, preds, loss,
    running_loss, running_corrects, epoch_loss, epoch_acc,
    best_acc, best_model_wts, exception,
    \* history of train_model, read by the properties only
    init_wts, val_hist, phase_losses,
    \* visualize_model
    vpc, num_images, was_training, images_so_far, vremaining, vbatch, j,
    rendered, batches_taken, mode_before

vars == <<num_epochs, dataset_sizes, batch_size,
          params, model_training, opt_steps, sched_steps,
          pc, epoch, phase, remaining, labels, preds, loss,
          running_loss, running_corrects, epoch_loss, epoch_acc,
          best_acc, best_model_wts, exception, init_wts, val_hist,
          phase_losses,
          vpc, num_images, was_training, images_so_far, vremaining, vbatch, j,
          rendered, batches_taken, mode_before>>

inputVars == <<num_epochs, dataset_sizes, batch_size>>
trainVars == <<pc, epoch, phase, remaining, labels, preds, loss,
               running_loss, running_corrects, epoch_loss, epoch_acc,
               best_acc, best_model_wts, init_wts, val_hist, phase_losses,
               params, opt_steps, sched_steps>>
visVars == <<vpc, num_images, was_training, images_so_far, vremaining, vbatch, j,
             rendered, batches_taken, mode_before>>

\* ---------------------------------------------------------------- helpers
Min(a, b) == IF a <= b THEN a ELSE b

\* a > b on fractions <<num, den>> with positive denominators
FracGt(a, b) == a[1] * b[2] > b[1] * a[2]

FracEq(a, b) == a[1] * b[2] = b[1] * a[2]

None == <<>>

\* the number of batches a loader yields over n samples
NumBatches(n, bs) == (n + bs - 1) \div bs

\* the number of samples of the next batch of a loader with `left` samples left
BatchLen(left, bs) == Min(bs, left)

\* torch.sum(preds == labels.data)
CountCorrect(p, l) == Cardinality({i \in 1..Len(p) : p[i] = l[i]})

\* loss.item() * inputs.size(0)
WeightedLossUnweighted(l, n) == l

WeightedLoss(l, n) == l * n

\* phase == 'val' and epoch_acc > best_acc
ImprovedNonStrict(ph, acc, best) == ph = "val" /\ ~FracGt(best, acc)

ImprovedAnyPhase(ph, acc, best) == FracGt(acc, best)

Improved(ph, acc, best) == ph = "val" /\ FracGt(acc, best)

\* ---------------------------------------------------------------- train_model
Idle ==
    /\ labels = None /\ preds = None /\ loss = 0

\* lines 209-213
TrainModelEntry ==
    /\ pc = "entry"
    /\ best_model_wts' = params
    /\ best_acc' = <<0, 1>>
    /\ init_wts' = params
    /\ epoch' = 0
    /\ pc' = "epoch_loop"
    /\ UNCHANGED <<inputVars, params, model_training, opt_steps, sched_steps,
                   phase, remaining, labels, preds, loss, running_loss,
                   running_corrects, epoch_loss, epoch_acc, exception, val_hist,
                   phase_losses, visVars>>

\* line 215: the next epoch, or the end of the loop
EpochLoop ==
    /\ pc = "epoch_loop"
    /\ IF epoch < num_epochs
         THEN /\ phase' = "train"
              /\ pc' = "phase_begin"
         ELSE /\ phase' = phase
              /\ pc' = "finish"
    /\ UNCHANGED <<inputVars, params, model_training, opt_steps, sched_steps,
                   epoch, remaining, labels, preds, loss, running_loss,
                   running_corrects, epoch_loss, epoch_acc, best_acc,
                   best_model_wts, exception, init_wts, val_hist, phase_losses, visVars>>

\* model.train() / model.eval()
PhaseMode(ph) == ph = "train"

\* lines 220-230: the mode of the phase, the counters, a fresh iterator
PhaseBegin ==
    /\ pc = "phase_begin"
    /\ model_training' = PhaseMode(phase)
    /\ running_loss' = 0
    /\ running_corrects' = 0
    /\ remaining' = dataset_sizes[phase]
    /\ phase_losses' = {}
    /\ pc' = "batch_loop"
    /\ UNCHANGED <<inputVars, params, opt_steps, sched_steps, epoch, phase,
                   labels, preds, loss, epoch_loss, epoch_acc, best_acc,
                   best_model_wts, exception, init_wts, val_hist, visVars>>

\* lines 230-233: the loader yields the next batch
FetchBatch ==
    /\ pc = "batch_loop"
    /\ remaining > 0
    /\ \E l \in [1..BatchLen(remaining, batch_size) -> Classes] :
          labels' = l
    /\ remaining' = remaining - BatchLen(remaining, batch_size)
    /\ pc' = "forward"
    /\ UNCHANGED <<inputVars, params, model_training, opt_steps, sched_steps,
                   epoch, phase, preds, loss, running_loss, running_corrects,
                   epoch_loss, epoch_acc, best_acc, best_model_wts, exception,
                   init_wts, val_hist, phase_losses, visVars>>

\* if phase == 'train': loss.backward(); optimizer.step()
OptimizesAlways(ph) == TRUE

Optimizes(ph) == ph = "train"

\* lines 236-248: forward pass, and backward pass and optimizer step when training
Forward ==
    /\ pc = "forward"
    /\ \E p \in [1..Len(labels) -> Classes] : preds' = p
    /\ \E l \in LossVals : loss' = l
    /\ IF Optimizes(phase)
         THEN /\ opt_steps' = opt_steps + 1
              /\ params' = opt_steps + 1
         ELSE UNCHANGED <<opt_steps, params>>
    /\ pc' = "statistics"
    /\ UNCHANGED <<inputVars, model_training, sched_steps, epoch, phase,
                   remaining, labels, running_loss, running_corrects,
                   epoch_loss, epoch_acc, best_acc, best_model_wts, exception,
                   init_wts, val_hist, phase_losses, visVars>>

\* lines 251-252
Statistics ==
    /\ pc = "statistics"
    /\ running_loss' = running_loss + WeightedLoss(loss, Len(labels))
    /\ running_corrects' = running_corrects + CountCorrect(preds, labels)
    /\ phase_losses' = phase_losses \cup {loss}
    /\ labels' = None /\ preds' = None /\ loss' = 0
    /\ pc' = "batch_loop"
    /\ UNCHANGED <<inputVars, params, model_training, opt_steps, sched_steps,
                   epoch, phase, remaining, epoch_loss, epoch_acc, best_acc,
                   best_model_wts, exception, init_wts, val_hist, visVars>>

\* if phase == 'train': scheduler.step()
StepsScheduleAlways(ph) == TRUE

StepsSchedule(ph) == ph = "train"

\* lines 230, 253-254: the loader is exhausted
LoopExhausted ==
    /\ pc = "batch_loop"
    /\ remaining = 0
    /\ sched_steps' = IF StepsSchedule(phase) THEN sched_steps + 1 ELSE sched_steps
    /\ pc' = "epoch_stats"
    /\ UNCHANGED <<inputVars, params, model_training, opt_steps, epoch, phase,
                   remaining, labels, preds, loss, running_loss,
                   running_corrects, epoch_loss, epoch_acc, best_acc,
                   best_model_wts, exception, init_wts, val_hist, phase_losses, visVars>>

\* dataset_sizes[phase], the divisor of lines 256-257
DivisorBatches(ph) == NumBatches(dataset_sizes[ph], batch_size)

Divisor(ph) == dataset_sizes[ph]

\* lines 256-259: a division by the partition size
EpochStats ==
    /\ pc = "epoch_stats"
    /\ IF Divisor(phase) = 0
         THEN /\ exception' = "ZeroDivisionError"
              /\ pc' = "raised"
              /\ UNCHANGED <<epoch_loss, epoch_acc>>
         ELSE /\ epoch_loss' = <<running_loss, Divisor(phase)>>
              /\ epoch_acc' = <<running_corrects, Divisor(phase)>>
              /\ pc' = "best_check"
              /\ UNCHANGED exception
    /\ UNCHANGED <<inputVars, params, model_training, opt_steps, sched_steps,
                   epoch, phase, remaining, labels, preds, loss, running_loss,
                   running_corrects, best_acc, best_model_wts, init_wts,
                   val_hist, phase_losses, visVars>>

\* lines 262-266 and the advance of the two loops
BestCheck ==
    /\ pc = "best_check"
    /\ IF Improved(phase, epoch_acc, best_acc)
         THEN /\ best_acc' = epoch_acc
              /\ best_model_wts' = params
         ELSE UNCHANGED <<best_acc, best_model_wts>>
    /\ IF phase = "train"
         THEN /\ phase' = "val"
              /\ pc' = "phase_begin"
              /\ UNCHANGED <<epoch, val_hist>>
         ELSE /\ phase' = phase
              /\ epoch' = epoch + 1
              /\ pc' = "epoch_loop"
              /\ val_hist' = Append(val_hist, [acc |-> epoch_acc, wts |-> params])
    /\ epoch_loss' = None
    /\ epoch_acc' = None
    /\ UNCHANGED <<inputVars, params, model_training, opt_steps, sched_steps,
                   remaining, labels, preds, loss, running_loss,
                   running_corrects, exception, init_wts, phase_losses,
                   visVars>>

\* model.load_state_dict(best_model_wts)
LoadedWts == best_model_wts

\* lines 268-274
Finish ==
    /\ pc = "finish"
    /\ params' = LoadedWts
    /\ pc' = "returned"
    /\ UNCHANGED <<inputVars, model_training, opt_steps, sched_steps, epoch,
                   phase, remaining, labels, preds, loss, running_loss,
                   running_corrects, epoch_loss, epoch_acc, best_acc,
                   best_model_wts, exception, init_wts, val_hist, phase_losses, visVars>>

VisIdle ==
    /\ vpc = "idle" /\ num_images = 0 /\ was_training = FALSE
    /\ images_so_far = 0 /\ vremaining = 0 /\ vbatch = 0 /\ j = 0
    /\ rendered = 0 /\ batches_taken = 0 /\ mode_before = FALSE

Init ==
    /\ num_epochs \in 0..MaxEpochs
    /\ dataset_sizes \in [{"train", "val"} -> 0..MaxSize]
    /\ batch_size \in 1..MaxBatch
    /\ params = 0 /\ opt_steps = 0 /\ sched_steps = 0
    /\ model_training \in BOOLEAN
    /\ pc = "entry" /\ epoch = 0 /\ phase = "train" /\ remaining = 0
    /\ Idle
    /\ running_loss = 0 /\ running_corrects = 0
    /\ epoch_loss = None /\ epoch_acc = None
    /\ best_acc = <<0, 1>> /\ best_model_wts = 0
    /\ exception = "none"
    /\ init_wts = 0 /\ val_hist = <<>> /\ phase_losses = {}
    /\ VisIdle

Next ==
    \/ TrainModelEntry
    \/ EpochLoop
    \/ PhaseBegin
    \/ FetchBatch
    \/ Forward
    \/ Statistics
    \/ LoopExhausted
    \/ EpochStats
    \/ BestCheck
    \/ Finish

Spec == Init /\ [][Next]_vars

\* ---------------------------------------------------------------- visualize_model
\* was_training = model.training, read before model.eval()
SavedModeAfterEval == FALSE

SavedMode == model_training

\* lines 282-288: the mode is saved, evaluation mode set, a fresh iterator
VisEntry ==
    /\ vpc = "entry"
    /\ was_training' = SavedMode
    /\ model_training' = FALSE
    /\ images_so_far' = 0
    /\ vremaining' = dataset_sizes["val"]
    /\ vpc' = "batch_loop"
    /\ UNCHANGED <<inputVars, trainVars, exception, num_images, vbatch, j,
                   rendered, batches_taken, mode_before>>

\* lines 288-295: the loader yields the next validation batch
VisFetch ==
    /\ vpc = "batch_loop"
    /\ vremaining > 0
    /\ vbatch' = BatchLen(vremaining, batch_size)
    /\ vremaining' = vremaining - BatchLen(vremaining, batch_size)
    /\ batches_taken' = batches_taken + 1
    /\ j' = 0
    /\ vpc' = "image_loop"
    /\ UNCHANGED <<inputVars, trainVars, exception, model_training, num_images,
                   was_training, images_so_far, rendered, mode_before>>

\* plt.subplot(nrows, ncols, index) takes a grid of at least one row and one
\* column and an index in 1..nrows*ncols, and raises ValueError otherwise
SubplotOk(nrows, ncols, index) ==
    /\ nrows >= 1
    /\ ncols >= 1
    /\ 1 <= index
    /\ index <= nrows * ncols

\* if images_so_far == num_images
Reached(so_far, wanted) == so_far = wanted

\* lines 295-304: one image of the batch
VisImage ==
    /\ vpc = "image_loop"
    /\ j < vbatch
    /\ images_so_far' = images_so_far + 1
    /\ IF ~SubplotOk(num_images \div 2, 2, images_so_far + 1)
         THEN /\ exception' = "ValueError"
              /\ vpc' = "raised"
              /\ UNCHANGED <<rendered, model_training, j>>
         ELSE /\ rendered' = rendered + 1
              /\ UNCHANGED exception
              /\ IF Reached(images_so_far + 1, num_images)
                   THEN /\ model_training' = was_training
                        /\ vpc' = "returned"
                        /\ j' = j
                   ELSE /\ j' = j + 1
                        /\ vpc' = "image_loop"
                        /\ UNCHANGED model_training
    /\ UNCHANGED <<inputVars, trainVars, num_images, was_training, vremaining,
                   vbatch, batches_taken, mode_before>>

\* line 295: the batch has no more images
VisBatchDone ==
    /\ vpc = "image_loop"
    /\ j = vbatch
    /\ vpc' = "batch_loop"
    /\ UNCHANGED <<inputVars, trainVars, exception, model_training, num_images,
                   was_training, images_so_far, vremaining, vbatch, j,
                   rendered, batches_taken, mode_before>>

\* lines 288, 305: the loader is exhausted
VisExhausted ==
    /\ vpc = "batch_loop"
    /\ vremaining = 0
    /\ model_training' = was_training
    /\ vpc' = "returned"
    /\ UNCHANGED <<inputVars, trainVars, exception, num_images, was_training,
                   images_so_far, vremaining, vbatch, j, rendered,
                   batches_taken, mode_before>>

\* a call of visualize_model(model, num_images) on a network in either mode
InitVis ==
    /\ num_epochs = 0
    /\ dataset_sizes \in [{"train", "val"} -> 0..MaxSize]
    /\ dataset_sizes["train"] = dataset_sizes["val"]
    /\ batch_size \in 1..MaxBatch
    /\ params = 0 /\ opt_steps = 0 /\ sched_steps = 0
    /\ model_training \in BOOLEAN
    /\ pc = "idle" /\ epoch = 0 /\ phase = "train" /\ remaining = 0
    /\ Idle
    /\ running_loss = 0 /\ running_corrects = 0
    /\ epoch_loss = None /\ epoch_acc = None
    /\ best_acc = <<0, 1>> /\ best_model_wts = 0
    /\ exception = "none"
    /\ init_wts = 0 /\ val_hist = <<>> /\ phase_losses = {}
    /\ vpc = "entry"
    /\ num_images \in 0..MaxImages
    /\ mode_before = model_training
    /\ was_training = FALSE /\ images_so_far = 0 /\ vremaining = 0
    /\ vbatch = 0 /\ j = 0 /\ rendered = 0 /\ batches_taken = 0

NextVis ==
    \/ VisEntry
    \/ VisFetch
    \/ VisImage
    \/ VisBatchDone
    \/ VisExhausted

SpecVis == InitVis /\ [][NextVis]_vars

\* ---------------------------------------------------------------- properties
\* the positions of train_model inside a phase
BatchPcs == {"phase_begin", "batch_loop", "forward", "statistics"}

PhasePcs == BatchPcs \cup {"epoch_stats", "best_check"}

OuterPcs == {"entry", "epoch_loop", "finish", "returned"}

\* the largest of 0 and the validation accuracies of the history h
RECURSIVE MaxAcc(_)
MaxAcc(h) ==
    IF h = <<>> THEN <<0, 1>>
    ELSE LET m == MaxAcc(SubSeq(h, 1, Len(h) - 1))
             a == h[Len(h)].acc
         IN IF FracGt(a, m) THEN a ELSE m

\* the earliest epoch (from 1) of the history h with the maximum accuracy
BestEpoch(h) ==
    CHOOSE i \in 1..Len(h) :
        /\ \A k \in 1..Len(h) : ~FracGt(h[k].acc, h[i].acc)
        /\ \A k \in 1..(i - 1) : FracGt(h[i].acc, h[k].acc)

AllZero(h) == \A i \in 1..Len(h) : h[i].acc[1] = 0

\* the batches of the current phase the loader has yielded so far
BatchesDone == NumBatches(dataset_sizes[phase] - remaining, batch_size)

TrainBatches == NumBatches(dataset_sizes["train"], batch_size)

\* C1: on return from a run of at least one epoch the parameters of the model
\* are those it had at the end of the validation phase of the earliest epoch
\* with the maximum validation accuracy.
C1_ReturnsBestEpochParams ==
    (pc = "returned" /\ num_epochs >= 1) =>
        params = val_hist[BestEpoch(val_hist)].wts

\* C2: the schedule has been stepped once for every finished train pass: epoch
\* times up to the end of the batches of the train phase of epoch `epoch`, and
\* epoch + 1 times from there through the whole validation phase; num_epochs
\* times on return.
C2_OneScheduleStepPerEpoch ==
    /\ pc \in {"entry", "epoch_loop", "finish"} => sched_steps = epoch
    /\ pc = "returned" => sched_steps = num_epochs
    /\ (pc \in BatchPcs /\ phase = "train") => sched_steps = epoch
    /\ (pc \in {"epoch_stats", "best_check"} /\ phase = "train") =>
           sched_steps = epoch + 1
    /\ (pc \in PhasePcs /\ phase = "val") => sched_steps = epoch + 1

C2_Witness ==
    /\ pc = "returned"
    /\ num_epochs = 2
    /\ sched_steps = 2
    /\ dataset_sizes["train"] >= 3
    /\ dataset_sizes["val"] >= 3

\* C5: at the end of every phase over a non-empty partition the correct count
\* lies between 0 and the partition size, so the epoch accuracy lies in [0, 1],
\* and the epoch loss is not negative.
C5_AccuracyInUnitInterval ==
    /\ (pc = "epoch_stats" /\ dataset_sizes[phase] > 0) =>
           /\ 0 <= running_corrects
           /\ running_corrects <= dataset_sizes[phase]
           /\ running_loss >= 0
    /\ pc = "best_check" =>
           /\ epoch_acc[2] > 0
           /\ 0 <= epoch_acc[1]
           /\ epoch_acc[1] <= epoch_acc[2]
           /\ epoch_loss[2] > 0
           /\ epoch_loss[1] >= 0

C5_Witness ==
    /\ pc = "best_check"
    /\ phase = "val"
    /\ epoch = 1
    /\ dataset_sizes["val"] = 3
    /\ batch_size = 2
    /\ epoch_acc = <<3, 3>>
    /\ epoch_loss[1] > 0

\* C6: every batch adds its loss times its size to the accumulated loss and the
\* number of its samples whose predicted class is the label to the correct
\* count, both starting from 0 in each phase; when every batch of a phase had
\* the same loss L the accumulated loss is L times the partition size and the
\* epoch loss is L.
C6_WeightedLossAndCorrectCount ==
    /\ [](pc = "best_check" =>
            \A L \in LossVals :
                phase_losses = {L} =>
                    /\ running_loss = L * dataset_sizes[phase]
                    /\ FracEq(epoch_loss, <<L, 1>>))
    /\ [][pc = "statistics" =>
            /\ running_loss' = running_loss + loss * Len(labels)
            /\ running_corrects' = running_corrects
                 + Cardinality({i \in DOMAIN labels : preds[i] = labels[i]})]_vars
    /\ [][pc = "phase_begin" =>
            (running_loss' = 0 /\ running_corrects' = 0)]_vars

C6_Witness ==
    /\ pc = "best_check"
    /\ dataset_sizes[phase] = 4
    /\ batch_size = 2
    /\ phase_losses = {1}
    /\ running_loss = 4
    /\ epoch_loss = <<4, 4>>
    /\ running_corrects = 3

\* C7: a run over an empty partition never reaches the division of the
\* accumulated loss by the partition size 0 and never ends in the
\* ZeroDivisionError of that division.
C7_EmptyPartitionRejected ==
    (num_epochs >= 1 /\ \E ph \in {"train", "val"} : dataset_sizes[ph] = 0) =>
        /\ ~(pc = "epoch_stats" /\ dataset_sizes[phase] = 0)
        /\ exception # "ZeroDivisionError"

\* C8: best_acc is the largest of 0 and the validation accuracies computed so
\* far and never decreases; best_acc and best_model_wts change only at the end
\* of a validation phase whose accuracy is strictly greater than best_acc, and
\* there they become that accuracy and the current parameters.
C8_BestAccIsRunningMax ==
    /\ [](pc # "entry" => FracEq(best_acc, MaxAcc(val_hist)))
    /\ [][~FracGt(best_acc, best_acc')]_vars
    /\ [][(best_acc' # best_acc \/ best_model_wts' # best_model_wts) =>
            /\ pc = "best_check"
            /\ phase = "val"
            /\ FracGt(epoch_acc, best_acc)]_vars
    /\ [][(pc = "best_check" /\ phase = "val" /\ FracGt(epoch_acc, best_acc)) =>
            /\ best_acc' = epoch_acc
            /\ best_model_wts' = params
            /\ best_model_wts' # best_model_wts]_vars

C8_Witness ==
    /\ pc = "epoch_loop"
    /\ Len(val_hist) = 2
    /\ FracGt(val_hist[2].acc, val_hist[1].acc)
    /\ val_hist[1].acc[1] > 0
    /\ best_model_wts = val_hist[2].wts
    /\ best_acc = val_hist[2].acc

\* C9: the optimizer has stepped once for every train batch processed and for
\* no validation batch: the count of its steps follows the train batches, the
\* parameters do not change from the start to the end of a validation phase,
\* the parameters recorded after a validation phase are those of the end of the
\* train phase of that epoch, and on return the count is num_epochs times the
\* number of train batches.
C9_OptimizerStepsOnlyInTrain ==
    /\ [](/\ pc \in OuterPcs => opt_steps = epoch * TrainBatches
          /\ pc = "returned" => opt_steps = num_epochs * TrainBatches
          /\ (phase = "train" /\ pc = "phase_begin") =>
                 opt_steps = epoch * TrainBatches
          /\ (phase = "train" /\ pc \in {"batch_loop", "statistics"}) =>
                 opt_steps = epoch * TrainBatches + BatchesDone
          /\ (phase = "train" /\ pc = "forward") =>
                 opt_steps = epoch * TrainBatches + BatchesDone - 1
          /\ (phase = "train" /\ pc \in {"epoch_stats", "best_check"}) =>
                 opt_steps = (epoch + 1) * TrainBatches
          /\ (phase = "val" /\ pc \in PhasePcs) =>
                 /\ opt_steps = (epoch + 1) * TrainBatches
                 /\ params = opt_steps
          /\ \A i \in 1..Len(val_hist) : val_hist[i].wts = i * TrainBatches)
    /\ [][(phase = "val" /\ pc \in PhasePcs) =>
            (params' = params /\ opt_steps' = opt_steps)]_vars

C9_Witness ==
    /\ pc = "returned"
    /\ num_epochs = 2
    /\ dataset_sizes["train"] = 3
    /\ dataset_sizes["val"] = 3
    /\ batch_size = 2
    /\ opt_steps = 4

\* C10: while every validation accuracy has been 0 the snapshot is the one
\* taken before the first epoch, and a run of at least one epoch whose
\* validation accuracies are all 0 returns the model with the parameters it was
\* passed in with, which are the parameters of no trained epoch.
C10_AllZeroReturnsInitial ==
    /\ (pc # "entry" /\ AllZero(val_hist)) =>
           (best_model_wts = init_wts /\ FracEq(best_acc, <<0, 1>>))
    /\ (pc = "returned" /\ num_epochs >= 1 /\ AllZero(val_hist)) =>
           /\ params = init_wts
           /\ \A i \in 1..Len(val_hist) : val_hist[i].wts # params

C10_Witness ==
    /\ pc = "returned"
    /\ num_epochs = 2
    /\ AllZero(val_hist)
    /\ opt_steps >= 4
    /\ params = init_wts

\* C3: visualize_model runs in evaluation mode and, on both of its returns,
\* leaves the model in the mode it had before the call.
C3_ModeRestoredOnReturn ==
    /\ vpc \in {"batch_loop", "image_loop"} => ~model_training
    /\ vpc = "returned" => model_training = mode_before

C3_Witness ==
    /\ vpc = "returned"
    /\ mode_before
    /\ model_training
    /\ images_so_far = num_images
    /\ vremaining > 0

\* C4: visualize_model never renders more than num_images pairs, and when it
\* has ended it has rendered min(num_images, validation samples) pairs and
\* taken no batch beyond the one that reached the count.
C4_RendersRequestedCount ==
    /\ rendered <= num_images
    /\ vpc \in {"returned", "raised"} =>
           /\ rendered = Min(num_images, dataset_sizes["val"])
           /\ batches_taken = NumBatches(Min(num_images, dataset_sizes["val"]),
                                         batch_size)

====
